---------------------------- MODULE Spec2Model ----------------------------
(***************************************************************************)
(* Model of the two converters of epubGen:                                 *)
(*   epub_generator.py  (main, create_epub, get_image_files)               *)
(*   gen_xhtml.py       (command line block, gen_xhtml)                    *)
(* One behaviour is one run of one of the two programs on one file system. *)
(* File names, paths and generated names are sequences of one-character    *)
(* strings, so that lower(), suffix, endswith, sorting and number          *)
(* formatting are computed character by character as Python does.          *)
(***************************************************************************)
EXTENDS Integers, Sequences, FiniteSets, TLC

(***************************************************************************)
(* Bounds                                                                  *)
(***************************************************************************)
\* largest number of entries of the image directory
MaxFiles == 3

(***************************************************************************)
(* Characters and strings                                                  *)
(***************************************************************************)
DigitChars == <<"0","1","2","3","4","5","6","7","8","9">>
UpperChars == <<"A","B","C","D","E","F","G","H","I","J","K","L","M",
                "N","O","P","Q","R","S","T","U","V","W","X","Y","Z">>
LowerChars == <<"a","b","c","d","e","f","g","h","i","j","k","l","m",
                "n","o","p","q","r","s","t","u","v","w","x","y","z">>
OtherChars == {" ", "-", ".", "/", "_"}

Range(s) == {s[i] : i \in DOMAIN s}

Chars == Range(DigitChars) \cup Range(UpperChars) \cup Range(LowerChars) \cup OtherChars

IndexIn(c, s) == CHOOSE i \in DOMAIN s : s[i] = c

\* Python ord() on the characters used
ord == [c \in Chars |->
          IF c \in Range(DigitChars) THEN 47 + IndexIn(c, DigitChars)
          ELSE IF c \in Range(UpperChars) THEN 64 + IndexIn(c, UpperChars)
          ELSE IF c \in Range(LowerChars) THEN 96 + IndexIn(c, LowerChars)
          ELSE IF c = " " THEN 32
          ELSE IF c = "-" THEN 45
          ELSE IF c = "." THEN 46
          ELSE IF c = "/" THEN 47
          ELSE 95]

\* str.lower() on one character
lowerChar == [c \in Chars |->
                IF c \in Range(UpperChars) THEN LowerChars[IndexIn(c, UpperChars)] ELSE c]

\* str.lower()
lower(s) == [i \in 1..Len(s) |-> lowerChar[s[i]]]

RECURSIVE StrLess(_, _)
\* Python's str "<": code point order, a proper prefix is smaller
StrLess(a, b) ==
    IF b = <<>> THEN FALSE
    ELSE IF a = <<>> THEN TRUE
    ELSE IF a[1] = b[1] THEN StrLess(Tail(a), Tail(b))
    ELSE ord[a[1]] < ord[b[1]]

\* str.endswith
endswith(s, suf) ==
    /\ Len(suf) <= Len(s)
    /\ SubSeq(s, Len(s) - Len(suf) + 1, Len(s)) = suf

\* str.replace(old, new) for single characters
replace(s, old, new) == [i \in 1..Len(s) |-> IF s[i] = old THEN new ELSE s[i]]

\* pathlib's PurePath.suffix: the text from the last dot of the name,
\* empty when there is no dot, or the dot is first or last
suffix(name) ==
    LET dots == {i \in 1..Len(name) : name[i] = "."}
    IN  IF dots = {} THEN <<>>
        ELSE LET i == CHOOSE d \in dots : \A e \in dots : e <= d
             IN  IF 1 < i /\ i < Len(name) THEN SubSeq(name, i, Len(name)) ELSE <<>>

RECURSIVE str(_)
\* str(n) for n >= 0: decimal digits without padding
str(n) == IF n < 10 THEN <<DigitChars[n + 1]>>
          ELSE str(n \div 10) \o <<DigitChars[(n % 10) + 1]>>

RECURSIVE zfill(_, _)
zfill(s, width) == IF Len(s) >= width THEN s ELSE zfill(<<"0">> \o s, width)

\* format(n, "04d")
fmt04d(n) == zfill(str(n), 4)

(***************************************************************************)
(* Sorting: list.sort / sorted are stable sorts by key                     *)
(***************************************************************************)
\* insert the pair x = <<key, value>> behind every pair whose key is not
\* greater than its own
InsertByKey(sorted, x) ==
    LET before == {i \in 1..Len(sorted) : ~ StrLess(x[1], sorted[i][1])}
        p      == Cardinality(before)
    IN  SubSeq(sorted, 1, p) \o <<x>> \o SubSeq(sorted, p + 1, Len(sorted))

RECURSIVE SortPairs(_)
SortPairs(pairs) ==
    IF pairs = <<>> THEN <<>>
    ELSE InsertByKey(SortPairs(SubSeq(pairs, 1, Len(pairs) - 1)), pairs[Len(pairs)])

\* the values of a sequence of <<key, value>> pairs
Values(pairs) == [i \in 1..Len(pairs) |-> pairs[i][2]]

(***************************************************************************)
(* The file system the run works on                                        *)
(***************************************************************************)
N_b_png     == <<"b",".","p","n","g">>
N_A_jpg     == <<"A",".","j","p","g">>
N_c_gif     == <<"c",".","g","i","f">>
N_page1_jpg == <<"p","a","g","e","1",".","j","p","g">>
N_page2_jpg == <<"p","a","g","e","2",".","j","p","g">>
N_C_JPG     == <<"C",".","J","P","G">>
N_a_jpg     == <<"a",".","j","p","g">>
N_notes_txt == <<"n","o","t","e","s",".","t","x","t">>

\* names a directory entry can have
FileNames == {N_b_png, N_A_jpg, N_c_gif, N_page1_jpg, N_page2_jpg,
              N_C_JPG, N_a_jpg, N_notes_txt}

\* the content of the file of a given name: its bytes (every file has its
\* own) and the pixel size its header declares
FileData(name) ==
    [bytes |-> [i \in 1..Len(name) |-> ord[name[i]]],
     size  |-> IF Len(name) > 5 THEN <<600, 400>> ELSE <<800, 1200>>]

NoData == [bytes |-> <<>>, size |-> <<0, 0>>]

\* a directory entry is a regular file that can be read ("ok"), a regular
\* file that cannot be opened ("denied"), or a subdirectory ("dir")
EntryStates == {"ok", "denied", "dir"}

Entry(name, st) ==
    [kind     |-> IF st = "dir" THEN "dir" ELSE "file",
     readable |-> st # "denied",
     data     |-> IF st = "dir" THEN NoData ELSE FileData(name)]

SubDir == Entry(<<>>, "dir")

EmptyDir == [n \in {} |-> SubDir]

RECURSIVE Orders(_)
\* the sequences that hold every element of the set S once
Orders(S) ==
    IF S = {} THEN {<<>>}
    ELSE UNION {{<<x>> \o p : p \in Orders(S \ {x})} : x \in S}

(***************************************************************************)
(* epub_generator.py: pure parts                                           *)
(***************************************************************************)
E_jpg  == <<".","j","p","g">>
E_jpeg == <<".","j","p","e","g">>
E_png  == <<".","p","n","g">>
E_gif  == <<".","g","i","f">>
E_webp == <<".","w","e","b","p">>
E_bmp  == <<".","b","m","p">>

IMAGE_EXTENSIONS == {E_jpg, E_jpeg, E_png, E_gif, E_webp, E_bmp}

\* the condition of the list comprehension of get_image_files
is_image(name, d) == d[name].kind = "file" /\ lower(suffix(name)) \in IMAGE_EXTENSIONS

sort_key_raw(name) == name

\* key of image_files.sort
sort_key(name) == lower(name)

\* the names with their sort keys
epub_keyed(names) == [i \in 1..Len(names) |-> <<sort_key(names[i]), names[i]>>]

\* the list comprehension of get_image_files: the entries of the directory
\* d that pass the condition, in the order in which iterdir() yields them,
\* which is any order
listed_images(d) == Orders({n \in DOMAIN d : is_image(n, d)})

\* get_image_files once the folder is known to be a directory: listed is
\* the list the comprehension built
get_image_files(listed) == Values(SortPairs(epub_keyed(listed)))

media_types == (E_jpg :> "image/jpeg") @@ (E_jpeg :> "image/jpeg") @@
               (E_png :> "image/png") @@ (E_gif :> "image/gif") @@
               (E_webp :> "image/webp") @@ (E_bmp :> "image/bmp")

get_media_type(name) ==
    LET extension == lower(suffix(name))
    IN  IF extension \in DOMAIN media_types THEN media_types[extension] ELSE "image/jpeg"

T_image_  == <<"i","m","a","g","e","_">>
T_images_ == <<"i","m","a","g","e","s","/">>
T_page_   == <<"p","a","g","e","_">>
T_xhtml   == <<".","x","h","t","m","l">>
T_Page_   == <<"P","a","g","e"," ">>
T_id_     == <<"i","d","_">>

image_name_rawext(index, name) == T_image_ \o fmt04d(index) \o suffix(name)

\* image_name of the loop of create_epub
image_name(index, name) == T_image_ \o fmt04d(index) \o lower(suffix(name))

\* file_name of the chapter
page_name(index) == T_page_ \o fmt04d(index) \o T_xhtml

\* "Page {index}"
page_title(index) == T_Page_ \o str(index)

can_read_always(entry) == TRUE

\* open(image_path, 'rb') succeeds
can_read(entry) == entry.kind = "file" /\ entry.readable

read_bytes_short(entry) == SubSeq(entry.data.bytes, 1, Len(entry.data.bytes) - 1)

\* img_file.read() of a file opened in binary mode
read_bytes(entry) == entry.data.bytes

\* the EpubImage item of one loop iteration
EpubImage(index, name, image_data) ==
    [type       |-> "image",
     file_name  |-> T_images_ \o image_name(index, name),
     media_type |-> get_media_type(name),
     title      |-> <<>>,
     content    |-> image_data,
     img_src    |-> <<>>]

\* the EpubHtml chapter of one loop iteration; img_src is the src
\* attribute of the img element of its content, title its title
EpubHtml(index, name) ==
    [type       |-> "html",
     file_name  |-> page_name(index),
     media_type |-> "application/xhtml+xml",
     title      |-> page_title(index),
     content    |-> <<>>,
     img_src    |-> T_images_ \o image_name(index, name)]

AuxItem(t) ==
    [type |-> t, file_name |-> <<>>, media_type |-> "", title |-> <<>>,
     content |-> <<>>, img_src |-> <<>>]

spine_reversed(chs) == <<"nav">> \o [i \in 1..Len(chs) |-> chs[Len(chs) + 1 - i]]

\* book.spine = ['nav'] + chapters
spine_of(chs) == <<"nav">> \o chs

\* book.toc = [(epub.Section('Pages'), chapters)]
toc_of(chs) == <<[section |-> "Pages", chapters |-> chs]>>

\* 'id_' + title.replace(' ', '_')
identifier_of(t) == T_id_ \o replace(t, " ", "_")

NoBook == [identifier |-> <<>>, title |-> <<>>, language |-> "", author |-> "",
           items |-> <<>>, toc |-> <<>>, spine |-> <<>>]

\* epub.EpubBook() followed by the metadata calls
NewBook(t, a) ==
    [identifier |-> identifier_of(t), title |-> t, language |-> "en", author |-> a,
     items |-> <<>>, toc |-> <<>>, spine |-> <<>>]

no_images_never(files) == FALSE

\* the condition of "if not image_files"
no_images(files) == files = <<>>

\* the exceptions of the except clause of main
CaughtByMain == {"FileNotFoundError", "NotADirectoryError", "ValueError"}

\* sys.exit(1) of the except clause
ExitError == 1

\* exit status of the interpreter after an uncaught exception
ExitTraceback == 1

\* exit status of argparse on a command line it rejects
ExitUsage == 2

T_MyBook    == <<"M","y","B","o","o","k">>
T_ImageBook == <<"I","m","a","g","e"," ","B","o","o","k">>
T_Untitled  == <<"U","n","t","i","t","l","e","d">>

\* what the output path holds
Absent     == [kind |-> "absent",  book |-> NoBook]
OldFile    == [kind |-> "old",     book |-> NoBook]
Archive(b) == [kind |-> "epub",    book |-> b]

\* the output path: free, holding an older file that can be replaced, or
\* holding an older file that cannot be written
OutStates == {"absent", "present", "readonly"}

InitialOutFile(o) == IF o \in {"present", "readonly"} THEN OldFile ELSE Absent

write_error_none(o) == "none"

\* the exception epub.write_epub raises for the output path, if any
write_error(o) ==
    IF o = "readonly" THEN "PermissionError" ELSE "none"

(***************************************************************************)
(* gen_xhtml.py: pure parts                                                *)
(***************************************************************************)
T_p_        == <<"p","-">>
T_dd_image  == <<".",".","/","i","m","a","g","e">>
T_img       == <<"i","m","g">>
N_xhtml     == <<"x","h","t","m","l">>

\* the condition of the generator of gen_xhtml
is_jpg(name) == endswith(lower(name), E_jpg)

\* sorted() without key: the names themselves are compared
jpg_sort_key(name) == name

\* the names with their sort keys
jpg_keyed(names) == [i \in 1..Len(names) |-> <<jpg_sort_key(names[i]), names[i]>>]

\* the generator of gen_xhtml: the names of the directory d that pass the
\* condition, in the order in which os.listdir yields them, which is any
\* order
listed_jpgs(d) == Orders({n \in DOMAIN d : is_jpg(n)})

\* jpg_files = sorted(...) of what the generator yields
list_jpg(listed) == Values(SortPairs(jpg_keyed(listed)))

xhtml_name(i) == T_p_ \o fmt04d(i) \o T_xhtml

xlink_href_nosep(image_rel_prefix, jpg_name) == image_rel_prefix \o jpg_name

xlink_href(image_rel_prefix, jpg_name) == image_rel_prefix \o <<"/">> \o jpg_name

\* TEMPLATE.format(...): the values the template is filled with
render(t, size, href) ==
    [title |-> t, width |-> size[1], height |-> size[2], image_path |-> href]

can_open_always(entry) == TRUE

\* Image.open(img_path) succeeds
can_open(entry) == entry.kind = "file" /\ entry.readable

\* the exception of a failed open
open_error(entry) == IF entry.kind = "dir" THEN "IsADirectoryError" ELSE "PermissionError"

\* where output_folder lies: outside the image folder, the image folder
\* itself, or the folder named xhtml in the image folder
OutRels == {"separate", "same", "inside"}

\* the exception os.makedirs(output_folder, exist_ok=True) raises, if any
makedirs_error(rel, kind) ==
    IF kind = "file" /\ rel = "same" THEN "FileExistsError"
    ELSE IF kind = "file" /\ rel = "inside" THEN "NotADirectoryError"
    ELSE "none"

\* the image folder after os.makedirs(output_folder, exist_ok=True)
makedirs_kind(rel, kind) == IF rel = "separate" THEN kind ELSE "dir"

makedirs_dir(rel, d) == IF rel = "inside" THEN (N_xhtml :> SubDir) @@ d ELSE d

\* the title and image_rel_prefix arguments of the runs
XhtmlArgs == {<<T_MyBook, T_dd_image>>, <<T_Untitled, T_img>>}

NoFiles == [n \in {} |-> render(<<>>, <<0, 0>>, <<>>)]

(***************************************************************************)
(* State                                                                   *)
(***************************************************************************)
VARIABLES
    tool,        \* "epub": epub_generator.py runs, "xhtml": gen_xhtml.py runs
    folderKind,  \* what the image folder path is: "missing", "file", "dir"
    folderKind0, \* what the image folder path was when the run began
    dir,         \* the entries of the image folder: name -> entry
    outState,    \* epub: the state of the output path
    outFile,     \* epub: what the output path holds
    outFile0,    \* epub: what the output path held when the run began
    written,     \* epub: the paths the run has written
    outRel,      \* xhtml: where output_folder lies
    xhtmlFiles,  \* xhtml: the files the run has written: name -> content
    pc,          \* position of the run
    title,       \* the title argument
    prefix,      \* xhtml: image_rel_prefix
    image_files, \* image_files of create_epub, jpg_files of gen_xhtml
    index,       \* loop index (index, i)
    book,        \* epub: the book under construction
    chapters,    \* epub: chapters
    exc,         \* the exception that is propagating or ended the run
    exitCode,    \* exit status of the process, -1 while it runs
    message      \* what the run printed last

vars == <<tool, folderKind, folderKind0, dir, outState, outFile, outFile0, written, outRel,
          xhtmlFiles, pc, title, prefix, image_files, index, book, chapters,
          exc, exitCode, message>>

fs   == <<folderKind, dir>>
env  == <<tool, folderKind0, outState, outFile0, outRel>>
run  == <<title, prefix, image_files, index, book, chapters>>
outs == <<outFile, written, xhtmlFiles>>

Dirs == UNION {{[n \in names |-> Entry(n, st[n])] : st \in [names -> EntryStates]} :
                  names \in {ns \in SUBSET FileNames : Cardinality(ns) <= MaxFiles}}

Init ==
    /\ tool \in {"epub", "xhtml"}
    /\ folderKind \in {"missing", "file", "dir"}
    /\ folderKind0 = folderKind
    /\ IF folderKind = "dir" THEN dir \in Dirs ELSE dir = EmptyDir
    /\ IF tool = "epub" THEN outState \in OutStates ELSE outState = "absent"
    /\ outFile = InitialOutFile(outState)
    /\ outFile0 = outFile
    /\ written = {}
    /\ IF tool = "xhtml" THEN outRel \in OutRels ELSE outRel = "separate"
    /\ xhtmlFiles = NoFiles
    /\ pc = "main"
    /\ title = <<>>
    /\ prefix = <<>>
    /\ image_files = <<>>
    /\ index = 0
    /\ book = NoBook
    /\ chapters = <<>>
    /\ exc = "none"
    /\ exitCode = -1
    /\ message = ""

\* an exception leaves the function that is running
Raise(e) ==
    /\ exc' = e
    /\ pc' = "raised"
    /\ UNCHANGED <<exitCode, message>>

\* the process ends
Exit(code, msg) ==
    /\ pc' = "exited"
    /\ exitCode' = code
    /\ message' = msg
    /\ UNCHANGED exc

Goto(l) ==
    /\ pc' = l
    /\ UNCHANGED <<exc, exitCode, message>>

(***************************************************************************)
(* epub_generator.py                                                       *)
(***************************************************************************)
\* main up to the call of create_epub: parse_args either rejects the
\* command line, prints the help, or yields the arguments
ParseArgs ==
    /\ tool = "epub" /\ pc = "main"
    /\ \E a \in {"ok", "usage", "help"} :
         IF a = "usage" THEN Exit(ExitUsage, "usage") /\ UNCHANGED title
         ELSE IF a = "help" THEN Exit(0, "help") /\ UNCHANGED title
         ELSE /\ title' = T_ImageBook
              /\ Goto("get_image_files")
    /\ UNCHANGED <<env, fs, outs, prefix, image_files, index, book, chapters>>

\* image_files = get_image_files(image_folder)
GetImageFiles ==
    /\ tool = "epub" /\ pc = "get_image_files"
    /\ IF folderKind = "missing" THEN Raise("FileNotFoundError") /\ UNCHANGED image_files
       ELSE IF folderKind # "dir" THEN Raise("NotADirectoryError") /\ UNCHANGED image_files
       ELSE /\ \E listed \in listed_images(dir) : image_files' = get_image_files(listed)
            /\ Goto("create_book")
    /\ UNCHANGED <<env, fs, outs, title, prefix, index, book, chapters>>

\* the check for an empty list, the new book, its metadata, chapters = []
CreateBook ==
    /\ tool = "epub" /\ pc = "create_book"
    /\ IF no_images(image_files)
       THEN Raise("ValueError") /\ UNCHANGED <<book, chapters, index>>
       ELSE /\ book' = NewBook(title, "Unknown")
            /\ chapters' = <<>>
            /\ index' = 1
            /\ Goto("loop")
    /\ UNCHANGED <<env, fs, outs, title, prefix, image_files>>

\* one iteration of the loop over image_files
AddImage ==
    /\ tool = "epub" /\ pc = "loop" /\ index <= Len(image_files)
    /\ LET image_path == image_files[index]
       IN  IF ~ can_read(dir[image_path])
           THEN Raise("PermissionError") /\ UNCHANGED <<book, chapters, index>>
           ELSE LET image_data == read_bytes(dir[image_path])
                    epub_image == EpubImage(index, image_path, image_data)
                    chapter    == EpubHtml(index, image_path)
                IN  /\ book' = [book EXCEPT !.items = @ \o <<epub_image, chapter>>]
                    /\ chapters' = Append(chapters, chapter)
                    /\ index' = index + 1
                    /\ Goto("loop")
    /\ UNCHANGED <<env, fs, outs, title, prefix, image_files>>

\* after the loop: toc, spine, EpubNcx and EpubNav
AddNavigation ==
    /\ tool = "epub" /\ pc = "loop" /\ index > Len(image_files)
    /\ book' = [book EXCEPT !.toc = toc_of(chapters),
                            !.spine = spine_of(chapters),
                            !.items = @ \o <<AuxItem("ncx"), AuxItem("nav")>>]
    /\ Goto("write_epub")
    /\ UNCHANGED <<env, fs, outs, title, prefix, image_files, index, chapters>>

\* epub.write_epub(output_path, book, {}) and the return to main
WriteEpub ==
    /\ tool = "epub" /\ pc = "write_epub"
    /\ IF write_error(outState) # "none"
       THEN Raise(write_error(outState)) /\ UNCHANGED outs
       ELSE /\ outFile' = Archive(book)
            /\ written' = written \cup {"output_path"}
            /\ Exit(0, "EPUB created")
            /\ UNCHANGED xhtmlFiles
    /\ UNCHANGED <<env, fs, run>>

\* the except clause of main, or the traceback of the interpreter
EpubExcept ==
    /\ tool = "epub" /\ pc = "raised"
    /\ IF exc \in CaughtByMain THEN Exit(ExitError, "Error")
                               ELSE Exit(ExitTraceback, "Traceback")
    /\ UNCHANGED <<env, fs, outs, run>>

(***************************************************************************)
(* gen_xhtml.py                                                            *)
(***************************************************************************)
\* the command line block up to the call of gen_xhtml
XhtmlMain ==
    /\ tool = "xhtml" /\ pc = "main"
    /\ \E enough \in BOOLEAN :
         IF ~ enough THEN Exit(1, "Usage") /\ UNCHANGED <<title, prefix>>
         ELSE /\ \E a \in XhtmlArgs : title' = a[1] /\ prefix' = a[2]
              /\ Goto("makedirs")
    /\ UNCHANGED <<env, fs, outs, image_files, index, book, chapters>>

\* os.makedirs(output_folder, exist_ok=True): creates the folder and its
\* missing parents
MakeDirs ==
    /\ tool = "xhtml" /\ pc = "makedirs"
    /\ IF makedirs_error(outRel, folderKind) # "none"
       THEN Raise(makedirs_error(outRel, folderKind)) /\ UNCHANGED fs
       ELSE /\ folderKind' = makedirs_kind(outRel, folderKind)
            /\ dir' = makedirs_dir(outRel, dir)
            /\ Goto("listdir")
    /\ UNCHANGED <<env, outs, run>>

\* jpg_files = sorted(...) and the return when there is none
ListJpg ==
    /\ tool = "xhtml" /\ pc = "listdir"
    /\ IF folderKind = "missing" THEN Raise("FileNotFoundError") /\ UNCHANGED <<image_files, index>>
       ELSE IF folderKind # "dir" THEN Raise("NotADirectoryError") /\ UNCHANGED <<image_files, index>>
       ELSE /\ \E listed \in listed_jpgs(dir) : image_files' = list_jpg(listed)
            /\ IF no_images(image_files')
               THEN Exit(0, "No .jpg files found") /\ UNCHANGED index
               ELSE index' = 1 /\ Goto("loop")
    /\ UNCHANGED <<env, fs, outs, title, prefix, book, chapters>>

\* one iteration of the loop over jpg_files
WriteXhtml ==
    /\ tool = "xhtml" /\ pc = "loop" /\ index <= Len(image_files)
    /\ LET jpg_name == image_files[index]
       IN  IF ~ can_open(dir[jpg_name])
           THEN Raise(open_error(dir[jpg_name])) /\ UNCHANGED <<xhtmlFiles, index>>
           ELSE LET content == render(title, dir[jpg_name].data.size,
                                      xlink_href(prefix, jpg_name))
                IN  /\ xhtmlFiles' = (xhtml_name(index) :> content) @@ xhtmlFiles
                    /\ index' = index + 1
                    /\ Goto("loop")
    /\ UNCHANGED <<env, fs, outFile, written, title, prefix, image_files, book, chapters>>

\* the last print of gen_xhtml and the end of the script
XhtmlDone ==
    /\ tool = "xhtml" /\ pc = "loop" /\ index > Len(image_files)
    /\ Exit(0, "Generated")
    /\ UNCHANGED <<env, fs, outs, run>>

\* nothing catches the exception: traceback
XhtmlTraceback ==
    /\ tool = "xhtml" /\ pc = "raised"
    /\ Exit(ExitTraceback, "Traceback")
    /\ UNCHANGED <<env, fs, outs, run>>

Next ==
    \/ ParseArgs
    \/ GetImageFiles
    \/ CreateBook
    \/ AddImage
    \/ AddNavigation
    \/ WriteEpub
    \/ EpubExcept
    \/ XhtmlMain
    \/ MakeDirs
    \/ ListJpg
    \/ WriteXhtml
    \/ XhtmlDone
    \/ XhtmlTraceback

Spec == Init /\ [][Next]_vars

TypeOK ==
    /\ tool \in {"epub", "xhtml"}
    /\ pc \in {"main", "get_image_files", "create_book", "loop", "write_epub",
               "makedirs", "listdir", "raised", "exited"}
    /\ exitCode \in {-1, 0, 1, 2}
    /\ (pc = "exited") = (exitCode # -1)

(***************************************************************************)
(* Vocabulary of the properties                                            *)
(***************************************************************************)
L_image_0001_jpg == <<"i","m","a","g","e","s","/","i","m","a","g","e","_","0","0","0","1",".","j","p","g">>
L_image_0002_png == <<"i","m","a","g","e","s","/","i","m","a","g","e","_","0","0","0","2",".","p","n","g">>
L_image_0003_gif == <<"i","m","a","g","e","s","/","i","m","a","g","e","_","0","0","0","3",".","g","i","f">>
L_p_0001         == <<"p","-","0","0","0","1",".","x","h","t","m","l">>
L_p_0002         == <<"p","-","0","0","0","2",".","x","h","t","m","l">>
L_href_page1     == <<".",".","/","i","m","a","g","e","/","p","a","g","e","1",".","j","p","g">>
L_href_page2     == <<".",".","/","i","m","a","g","e","/","p","a","g","e","2",".","j","p","g">>

\* i as four decimal digits, for 0 <= i <= 9999
FourDigits(i) ==
    <<DigitChars[((i \div 1000) % 10) + 1], DigitChars[((i \div 100) % 10) + 1],
      DigitChars[((i \div 10) % 10) + 1],   DigitChars[(i % 10) + 1]>>

\* the lowercased extension of a name that has one
LowerExtension(name) == lower(suffix(name))

\* the entries create_epub selects and those gen_xhtml selects
EpubQualifying == {n \in DOMAIN dir : dir[n].kind = "file" /\ LowerExtension(n) \in IMAGE_EXTENSIONS}
XhtmlQualifying == {n \in DOMAIN dir : endswith(lower(n), E_jpg)}

\* s holds every element of the set S exactly once
ListsExactly(s, S) ==
    /\ Len(s) = Cardinality(S)
    /\ \A n \in S : Cardinality({i \in 1..Len(s) : s[i] = n}) = 1

\* s ascends by lowercased name
AscendingFolded(s) ==
    \A i, j \in 1..Len(s) : i < j => ~ StrLess(lower(s[j]), lower(s[i]))

ImageItems(b) == SelectSeq(b.items, LAMBDA it : it.type = "image")
HtmlItems(b)  == SelectSeq(b.items, LAMBDA it : it.type = "html")

\* the run got past its command line
EpubStarted  == tool = "epub"  /\ pc # "main" /\ message \notin {"usage", "help"}
XhtmlStarted == tool = "xhtml" /\ pc # "main" /\ message # "Usage"

\* the positions of image_files whose file cannot be opened
BadPositions == {k \in 1..Len(image_files) :
                    ~ (dir[image_files[k]].kind = "file" /\ dir[image_files[k]].readable)}

FirstBad == CHOOSE k \in BadPositions : \A j \in BadPositions : k <= j

(***************************************************************************)
(* Properties                                                              *)
(***************************************************************************)
\* C1: when the directory holds only regular files whose extension,
\* lowercased, is in the allow-list, the list get_image_files returns holds
\* every one of them exactly once (as many as the directory has entries)
\* and ascends by lowercased file name.
C1_ListerComplete ==
    (/\ tool = "epub" /\ pc = "create_book"
     /\ \A n \in DOMAIN dir : dir[n].kind = "file" /\ LowerExtension(n) \in IMAGE_EXTENSIONS)
    => /\ Len(image_files) = Cardinality(DOMAIN dir)
       /\ ListsExactly(image_files, DOMAIN dir)
       /\ AscendingFolded(image_files)

C1_Witness ==
    /\ tool = "epub" /\ pc = "create_book"
    /\ DOMAIN dir = {N_C_JPG, N_b_png, N_a_jpg}
    /\ \A n \in DOMAIN dir : dir[n].kind = "file"
    /\ image_files = <<N_a_jpg, N_b_png, N_C_JPG>>

\* C2: for a non-empty ordered image set of n images the spine has n + 1
\* entries, the first is the navigation document, and entry i + 1 is the
\* wrapper page of the i-th image: the chapter page_{i}.xhtml whose img
\* element names the resource that carries the bytes of the i-th file.
C2_Spine ==
    (tool = "epub" /\ (pc = "write_epub" \/ outFile.kind = "epub"))
    => LET n == Len(image_files)
           b == IF outFile.kind = "epub" THEN outFile.book ELSE book
       IN  /\ n >= 1
           /\ Len(b.spine) = n + 1
           /\ b.spine[1] = "nav"
           /\ \A i \in 1..n :
                /\ b.spine[i + 1].type = "html"
                /\ b.spine[i + 1].file_name = T_page_ \o FourDigits(i) \o T_xhtml
                /\ \E k \in 1..Len(b.items) :
                     /\ b.items[k].type = "image"
                     /\ b.items[k].file_name = b.spine[i + 1].img_src
                     /\ b.items[k].content = dir[image_files[i]].data.bytes

C2_Witness ==
    /\ tool = "epub" /\ outFile.kind = "epub"
    /\ Len(image_files) = 3
    /\ Len(outFile.book.spine) = 4

\* the scenario of C3: the folder holds the readable images page1.jpg and
\* page2.jpg (and at most the output folder), the title is MyBook, the
\* prefix the default, and the run of gen_xhtml has ended
C3_Scenario ==
    /\ XhtmlStarted /\ pc = "exited"
    /\ folderKind0 = "dir"
    /\ DOMAIN dir \ {N_xhtml} = {N_page1_jpg, N_page2_jpg}
    /\ \A n \in {N_page1_jpg, N_page2_jpg} : dir[n].kind = "file" /\ dir[n].readable
    /\ title = T_MyBook /\ prefix = T_dd_image

\* C3 as stated: in the scenario the emitter writes p-0001.xhtml for
\* page2.jpg and p-0002.xhtml for page1.jpg, each with the href
\* ../image/<original file name>.
C3_Original ==
    C3_Scenario
    => /\ DOMAIN xhtmlFiles = {L_p_0001, L_p_0002}
       /\ xhtmlFiles[L_p_0001].image_path = L_href_page2
       /\ xhtmlFiles[L_p_0002].image_path = L_href_page1

\* C3 amended: in the scenario the emitter writes p-0001.xhtml for
\* page1.jpg and p-0002.xhtml for page2.jpg (ascending order of the names),
\* each with the href ../image/<original file name>.
C3_ScenarioAscending ==
    C3_Scenario
    => /\ exc = "none" /\ exitCode = 0
       /\ DOMAIN xhtmlFiles = {L_p_0001, L_p_0002}
       /\ xhtmlFiles[L_p_0001].image_path = L_href_page1
       /\ xhtmlFiles[L_p_0002].image_path = L_href_page2

C3_Witness ==
    /\ C3_Scenario
    /\ DOMAIN xhtmlFiles = {L_p_0001, L_p_0002}

\* C4: the image at position i of the set sorted by lowercased name is
\* embedded as images/image_{i:04d}{lowercased extension} with its bytes
\* and is the image page_{i:04d}.xhtml refers to; the folder b.png, A.jpg,
\* c.gif gives the order A.jpg, b.png, c.gif and the resources
\* image_0001.jpg, image_0002.png, image_0003.gif.
C4_ResourceNames ==
    (tool = "epub" /\ (pc = "write_epub" \/ outFile.kind = "epub"))
    => LET b     == IF outFile.kind = "epub" THEN outFile.book ELSE book
           imgs  == ImageItems(b)
           pages == HtmlItems(b)
           n     == Len(image_files)
       IN  /\ ListsExactly(image_files, EpubQualifying)
           /\ AscendingFolded(image_files)
           /\ Len(imgs) = n /\ Len(pages) = n
           /\ \A i \in 1..n :
                /\ imgs[i].file_name = T_images_ \o T_image_ \o FourDigits(i)
                                          \o LowerExtension(image_files[i])
                /\ imgs[i].content = dir[image_files[i]].data.bytes
                /\ pages[i].file_name = T_page_ \o FourDigits(i) \o T_xhtml
                /\ pages[i].img_src = imgs[i].file_name
           /\ (/\ DOMAIN dir = {N_b_png, N_A_jpg, N_c_gif}
               /\ \A f \in DOMAIN dir : dir[f].kind = "file")
              => /\ image_files = <<N_A_jpg, N_b_png, N_c_gif>>
                 /\ [i \in 1..3 |-> imgs[i].file_name]
                      = <<L_image_0001_jpg, L_image_0002_png, L_image_0003_gif>>

C4_Witness ==
    /\ tool = "epub" /\ outFile.kind = "epub"
    /\ DOMAIN dir = {N_b_png, N_A_jpg, N_c_gif}
    /\ Len(ImageItems(outFile.book)) = 3

C5_WitnessEpub ==
    /\ EpubStarted /\ pc = "exited" /\ folderKind0 = "dir"
    /\ N_notes_txt \in DOMAIN dir /\ EpubQualifying = {}
    /\ exc = "ValueError"

C6_Original ==
    (EpubStarted /\ pc = "exited")
    => IF folderKind0 # "dir" \/ EpubQualifying = {}
       THEN exitCode = 1
       ELSE exitCode = 0 /\ written = {"output_path"}

\* C6 amended: a run whose command line is accepted ends with exit code 0,
\* having written exactly one file, at the output path, exactly when the
\* folder is a directory with a qualifying image, every image can be read
\* and the archive can be written; in every other case it ends with exit
\* code 1 and has written nothing.  A rejected command line or a request
\* for help writes nothing either.
C6_ExitCodes ==
    (tool = "epub" /\ pc = "exited")
    => IF ~ EpubStarted THEN written = {} /\ outFile = outFile0
       ELSE IF \/ folderKind0 # "dir"
               \/ EpubQualifying = {}
               \/ \E n \in EpubQualifying : ~ dir[n].readable
               \/ outState = "readonly"
       THEN exitCode = 1 /\ written = {} /\ outFile = outFile0
       ELSE exitCode = 0 /\ written = {"output_path"} /\ outFile.kind = "epub"

C6_Witness ==
    /\ EpubStarted /\ pc = "exited"
    /\ folderKind0 = "dir" /\ EpubQualifying # {}
    /\ exc = "PermissionError" /\ exitCode = 1

\* C7: when the input folder does not exist, the EPUB tool ends with the
\* FileNotFoundError caught by main and exit code 1, the XHTML emitter ends
\* with an error, and neither run completes successfully.
C7_MissingFolderFails ==
    (pc = "exited" /\ folderKind0 = "missing")
    => /\ EpubStarted => exc = "FileNotFoundError" /\ exitCode = 1 /\ message = "Error"
       /\ XhtmlStarted => exc # "none" /\ exitCode # 0

\* C8: in the archive written, the resource of every image i of the
\* ordered set holds exactly the bytes of the i-th source file, and there
\* is no other image resource.
C8_RoundTrip ==
    (tool = "epub" /\ outFile.kind = "epub")
    => LET imgs == ImageItems(outFile.book)
       IN  /\ Len(imgs) = Len(image_files)
           /\ \A i \in 1..Len(imgs) :
                /\ imgs[i].file_name = T_images_ \o T_image_ \o FourDigits(i)
                                          \o LowerExtension(image_files[i])
                /\ imgs[i].content = FileData(image_files[i]).bytes
                /\ \A j \in 1..Len(imgs) :
                     imgs[j].content = imgs[i].content => j = i

C8_Witness ==
    /\ tool = "epub" /\ outFile.kind = "epub"
    /\ Len(ImageItems(outFile.book)) = 2
    /\ outFile0.kind = "old"

\* C9 as stated: in both tools an error at the image of position k aborts
\* the run: no image behind k is processed, the run does not end in
\* success, and no run ends having produced output for only some of the
\* images.
C9_Original ==
    BadPositions # {}
    => /\ index <= FirstBad
       /\ pc = "exited"
          => /\ exc # "none" /\ exitCode # 0
             /\ tool = "epub" => written = {}
             /\ tool = "xhtml" =>
                  Cardinality(DOMAIN xhtmlFiles) \in {0, Len(image_files)}

\* C9 amended: in both tools an error opening the image of position k
\* aborts the run: no image behind k is processed and the run does not end
\* in success.  create_epub then leaves no output at all; gen_xhtml leaves
\* the files p-0001.xhtml .. p-{k-1}.xhtml it wrote before the error, so
\* its failed run has produced output for exactly the images before k.
C9_AbortAtFirstError ==
    BadPositions # {}
    => /\ index <= FirstBad
       /\ tool = "epub" =>
            /\ Len(ImageItems(book)) < FirstBad
            /\ written = {} /\ outFile = outFile0
       /\ tool = "xhtml" =>
            DOMAIN xhtmlFiles \subseteq
                {T_p_ \o FourDigits(i) \o T_xhtml : i \in 1..(FirstBad - 1)}
       /\ pc = "exited"
          => /\ exc # "none" /\ exitCode # 0
             /\ index = FirstBad
             /\ tool = "xhtml" =>
                  DOMAIN xhtmlFiles =
                      {T_p_ \o FourDigits(i) \o T_xhtml : i \in 1..(FirstBad - 1)}

C9_Witness ==
    /\ tool = "xhtml" /\ pc = "exited"
    /\ BadPositions # {} /\ FirstBad = 2
    /\ Len(image_files) = 3
    /\ DOMAIN xhtmlFiles = {L_p_0001}

\* the run of create_epub is bound to fail before it writes: the folder is
\* missing or not a directory, holds no qualifying image, or holds a
\* qualifying image that cannot be read
FailsBeforeWrite ==
    /\ tool = "epub"
    /\ \/ folderKind0 # "dir"
       \/ EpubQualifying = {}
       \/ \E n \in EpubQualifying : ~ dir[n].readable

\* C10: create_epub touches the output path only in its last step, after
\* the input was validated and every image was read and registered; a run
\* that fails earlier leaves the file at the output path, existing or
\* absent, as it was.
C10_OutputOnlyAtEnd ==
    /\ [](FailsBeforeWrite => outFile = outFile0 /\ written = {})
    /\ [][(outFile' # outFile \/ written' # written)
          => /\ tool = "epub" /\ pc = "write_epub" /\ pc' = "exited"
             /\ folderKind0 = "dir"
             /\ Len(image_files) >= 1
             /\ index = Len(image_files) + 1
             /\ Len(ImageItems(book)) = Len(image_files)
             /\ \A i \in 1..Len(image_files) :
                  ImageItems(book)[i].content = dir[image_files[i]].data.bytes]_vars

C10_Witness ==
    /\ tool = "epub" /\ pc = "exited"
    /\ outState = "present" /\ outFile = OldFile
    /\ exc = "PermissionError" /\ index = 2

============================================================================
